---- MODULE Spec2Model ----
(***************************************************************************)
(* Model of src/mesh_utils.py: modular arithmetic, secp256k1-style curve   *)
(* arithmetic, and the ECDSA signer / verifier built on them.              *)
(*                                                                         *)
(* The source works on 256-bit integers.  The model keeps every formula of *)
(* the source but instantiates the curve parameters with a scaled-down     *)
(* curve of the same family as secp256k1:                                  *)
(*     y^2 = x^3 + 7 over GF(p),  p prime,  p % 4 = 3,  p % 3 = 1,         *)
(*     prime group order O < p < 2^RandBits,  7 a non-residue mod p        *)
(*     (so, as on secp256k1, no curve point has x = 0 or y = 0).           *)
(* Python integers are unbounded, so no operation of the source wraps;     *)
(* with p = 211 every intermediate product stays far below 2^31.           *)
(* Python's % with a positive modulus is the floor modulus, as in TLA+.    *)
(* Python tuples are 0-indexed; the model's tuples are 1-indexed, so       *)
(* P[0], P[1] of the source are P[1], P[2] here.                           *)
(***************************************************************************)
EXTENDS Integers, Sequences, FiniteSets, TLC

\* ------------------------------------------------------------ parameters
\* Field modulus (scaled down from the secp256k1 prime).
p == 211
\* Generator point coordinates (a point of the scaled-down curve).
Gx == 3
Gy == 33
G == <<Gx, Gy>>
\* Group order, "n" in the literature (scaled down; prime).
O == 199
\* Width of the entropy source in bits (256 in the source).
RandBits == 8

\* ------------------------------------------------------------ bounds
\* Message identifiers 0..MaxMsg.
MaxMsg == 1
\* Private keys 1..MaxSk are signed with.
MaxSk == 3
\* get_sig draws at most MaxDraws values from the entropy source per call.
MaxDraws == 3
\* Scalars 0..MaxK for the scalar-multiplication operations.
MaxK == 15
\* Signature components are taken within SigSlack of 0 and of O.
SigSlack == 1
\* Public-key x-coordinates 0..MaxPkX handed to ver_sig.
MaxPkX == 7
\* Exponents 0..MaxExp handed to pow_mod_n directly.
MaxExp == 6

\* ------------------------------------------------------------ state
VARIABLES
    \* the last field-arithmetic call: operation, arguments, result
    fop, fx, fe, fn, fres, fhalt,
    \* the current curve point and the call that produced it
    cp, cop, opP, opK,
    \* the last group-law comparison
    gop, gP, k1, k2, lhs, rhs,
    \* the activation record of get_sig (its locals and its position),
    \* and the result of ver_sig on what it returned
    get_sig, verdict,
    \* the last call of ver_sig on caller-supplied inputs
    ver_call

fieldVars == <<fop, fx, fe, fn, fres, fhalt>>
curveVars == <<cp, cop, opP, opK>>
groupVars == <<gop, gP, k1, k2, lhs, rhs>>
signVars == <<get_sig, verdict>>
vars == <<fieldVars, curveVars, groupVars, signVars, ver_call>>

\* ------------------------------------------------------------ helpers
RECURSIVE Pow2(_)
Pow2(b) == IF b = 0 THEN 1 ELSE 2 * Pow2(b - 1)

\* The identity element's sentinel pair.
Identity == <<0, 0>>

\* What a failed assert(False) yields in place of a return value.
AssertionError == "AssertionError"

\* ------------------------------------------------------------ Digest
\* sha256 wraps hashlib: an external one-way function whose value is an
\* integer of the digest width, not reduced mod O.  The model uses a fixed
\* mixing function of the message identifier onto RandBits-bit integers.
sha256(hash_string) ==
    (hash_string * hash_string * 53 + hash_string * 101 + 17) % Pow2(RandBits)

\* get_rand256: any RandBits-bit integer.
get_rand256 == 0..(Pow2(RandBits) - 1)

\* ------------------------------------------------------------ FieldArithmetic
\* The while loop of pow_mod_n on its three locals.
RECURSIVE pow_mod_loop(_, _, _, _)
pow_mod_loop(X, P, Y, n) ==
    IF P > 0
    THEN IF P % 2 = 0
         THEN pow_mod_loop((X * X) % n, P \div 2, Y, n)
         ELSE pow_mod_loop(X, P - 1, (X * Y) % n, n)
    ELSE Y

\* pow_mod_n whose odd step multiplies the accumulator by itself.
pow_mod_n_BadAcc(x, power, n) ==
    LET RECURSIVE loop(_, _, _)
        loop(X, P, Y) ==
            IF P > 0
            THEN IF P % 2 = 0
                 THEN loop((X * X) % n, P \div 2, Y)
                 ELSE loop(X, P - 1, (Y * Y) % n)
            ELSE Y
    IN loop(x, power, 1)

pow_mod_n(x, power, n) == pow_mod_loop(x, power, 1, n)

\* invert_n with the exponent of Fermat's theorem off by one.
invert_n_WrongExp(x, n) == pow_mod_n(x, n - 1, n)

invert_n(x, n) == pow_mod_n(x, n - 2, n)

\* ------------------------------------------------------------ CurvePoint
\* y on the curve for x: (x^3 + 7)^((p+1)/4) mod p, or its negation.
elip_gety(x, posneg) ==
    LET y2 == (pow_mod_n(x, 3, p) + 7) % p
        power == (p + 1) \div 4
        y == pow_mod_n(y2, power, p)
    IN IF posneg = 0 THEN y ELSE (-1 * y) % p

\* The chord / tangent formulas of elip_add, past its special cases.
elip_add_real(p1, p2) ==
    LET mm == IF p1 = p2
              THEN LET m0 == (3 * p1[1] * p1[1]) % p
                       denom == (2 * p1[2]) % p
                       denom_inv == invert_n(denom, p)
                   IN (m0 * denom_inv) % p
              ELSE LET top == (p2[2] - p1[2]) % p
                       bot == (p2[1] - p1[1]) % p
                       bot_inv == invert_n(bot, p)
                   IN (top * bot_inv) % p
        x == (mm * mm - p1[1] - p2[1]) % p
        y == (p1[2] + mm * (x - p1[1])) % p
    IN <<x, p - y>>

\* elip_add whose tangent slope lacks the factor 2 of the denominator.
elip_add_BadTangent(p1, p2) ==
    IF p1[2] = p - p2[2] THEN <<0, 0>>
    ELSE IF p1[1] = 0 /\ p1[2] = 0 THEN p2
    ELSE IF p2[1] = 0 /\ p2[1] = 0 THEN p1
    ELSE LET mm == IF p1 = p2
                   THEN ((3 * p1[1] * p1[1]) * invert_n(p1[2] % p, p)) % p
                   ELSE (((p2[2] - p1[2]) % p) * invert_n((p2[1] - p1[1]) % p, p)) % p
             x == (mm * mm - p1[1] - p2[1]) % p
             y == (p1[2] + mm * (x - p1[1])) % p
         IN <<x, p - y>>

elip_add(p1, p2) ==
    IF p1[2] = p - p2[2] THEN <<0, 0>>               \* p1 = -p2 (y only)
    ELSE IF p1[1] = 0 /\ p1[2] = 0 THEN p2           \* p1[0] == p1[1] == 0
    ELSE IF p2[1] = 0 /\ p2[1] = 0 THEN p1           \* p2[0] == p2[0] == 0
    ELSE elip_add_real(p1, p2)

\* The while loop of scal_mult_n on its three locals.
RECURSIVE scal_mult_loop(_, _, _)
scal_mult_loop(P_int, P_res, k_int) ==
    IF k_int > 0
    THEN scal_mult_loop(elip_add(P_int, P_int),
                        IF k_int % 2 = 1 THEN elip_add(P_res, P_int) ELSE P_res,
                        k_int \div 2)
    ELSE P_res

\* scal_mult_n whose loop stops at k_int = 1, dropping the top bit.
scal_mult_n_DropTopBit(P, k) ==
    LET RECURSIVE loop(_, _, _)
        loop(P_int, P_res, k_int) ==
            IF k_int > 1
            THEN loop(elip_add(P_int, P_int),
                      IF k_int % 2 = 1 THEN elip_add(P_res, P_int) ELSE P_res,
                      k_int \div 2)
            ELSE P_res
    IN IF k < 0 THEN <<AssertionError>>
       ELSE IF k = 0 THEN <<0, 0>>
       ELSE loop(P, <<0, 0>>, k)

scal_mult_n(P, k) ==
    IF k < 0 THEN <<AssertionError>>
    ELSE IF k = 0 THEN <<0, 0>>
    ELSE scal_mult_loop(P, <<0, 0>>, k)

\* ------------------------------------------------------------ input sets
\* The curve equation y^2 = x^3 + 7 (mod p) on coordinates in 0..p-1.
OnCurve(P) ==
    /\ P[1] \in 0..(p - 1)
    /\ P[2] \in 0..(p - 1)
    /\ (P[2] * P[2]) % p = (P[1] * P[1] * P[1] + 7) % p

CurvePoints == {P \in (0..(p - 1)) \X (0..(p - 1)) : OnCurve(P)}

\* A CurvePoint of the data model: the identity or a point of the curve.
ValidPoint(P) == P = Identity \/ OnCurve(P)

Scalars == (0..MaxK) \cup {O}

\* ------------------------------------------------------------ field calls
\* pow_mod_n and invert_n hold no assert and raise nothing on integers:
\* every call returns (fhalt stays FALSE) with the value in fres.
FieldInit ==
    /\ fop = "none" /\ fx = 0 /\ fe = 0 /\ fn = p /\ fres = 0 /\ fhalt = FALSE

PowModCall(x, e, n) ==
    /\ fop = "none"
    /\ fop' = "pow_mod_n"
    /\ fx' = x /\ fe' = e /\ fn' = n
    /\ fres' = pow_mod_n(x, e, n)
    /\ fhalt' = FALSE

InvertCall(x, n) ==
    /\ fop = "none"
    /\ fop' = "invert_n"
    /\ fx' = x /\ fe' = n - 2 /\ fn' = n
    /\ fres' = invert_n(x, n)
    /\ fhalt' = FALSE

\* ------------------------------------------------------------ curve calls
CurveInit ==
    /\ cp = Identity /\ cop = "none" /\ opP = Identity /\ opK = 0

ElipAddCall(q) ==
    /\ cop' = "elip_add"
    /\ opP' = Identity /\ opK' = 0
    /\ cp' = elip_add(cp, q)

ScalMultCall(k) ==
    /\ cop' = "scal_mult_n"
    /\ opP' = cp /\ opK' = k
    /\ cp' = scal_mult_n(cp, k)

GroupInit ==
    /\ gop = "none" /\ gP = Identity /\ k1 = 0 /\ k2 = 0 /\ lhs = Identity /\ rhs = Identity

GroupLawCall(P, a, b) ==
    /\ gop = "none"
    /\ gop' = "called"
    /\ gP' = P /\ k1' = a /\ k2' = b
    /\ lhs' = scal_mult_n(P, a + b)
    /\ rhs' = elip_add(scal_mult_n(P, a), scal_mult_n(P, b))

\* ------------------------------------------------------------ Verifier
ver_sig(mesg, pk, sig) ==
    LET sf == sig[1]
        Rx == sig[2]
    IN
    IF (sf < 1 \/ sf >= O) \/ (Rx < 1 \/ sf >= O) THEN AssertionError
    ELSE IF elip_gety(pk[1], 0) # pk[2] /\ elip_gety(pk[1], 1) # pk[2]
    THEN AssertionError
    ELSE LET Z == scal_mult_n(G, O) IN
    IF Z = pk THEN AssertionError
    ELSE LET Z2 == scal_mult_n(pk, O) IN
    IF Z2 # Z THEN AssertionError
    ELSE LET m == sha256(mesg)
             sf_inv == invert_n(sf, O)
             U1 == (m * sf_inv) % O
             U2 == (Rx * sf_inv) % O
             P1 == scal_mult_n(G, U1)
             P2 == scal_mult_n(pk, U2)
             P == elip_add(P1, P2)
         IN IF P[1] = Rx THEN "True" ELSE "False"

\* ------------------------------------------------------------ Signer
Messages == 0..MaxMsg
PrivateKeys == 1..MaxSk

SignInit ==
    /\ get_sig = [pc |-> "idle", mesg |-> 0, sk |-> 0, pk |-> Identity,
                  m |-> 0, R |-> 0, Rx |-> 0, ret |-> <<0, 0>>,
                  ndraws |-> 0, nrx0 |-> 0]
    /\ verdict = "none"

\* get_sig is entered: pk = sk * G, m = sha256(mesg).
GetSigCall(mesg, sk) ==
    /\ get_sig.pc = "idle"
    /\ get_sig' = [get_sig EXCEPT !.pc = "draw", !.mesg = mesg, !.sk = sk,
                                  !.pk = scal_mult_n(G, sk),
                                  !.m = sha256(mesg)]
    /\ UNCHANGED verdict

\* One pass of the inner loop: R = get_rand256(); leave it when 0 < R < O.
DrawNonce(v) ==
    /\ get_sig.pc = "draw"
    /\ get_sig.ndraws < MaxDraws
    /\ get_sig' = [get_sig EXCEPT !.R = v,
                                  !.ndraws = @ + 1,
                                  !.pc = IF v > 0 /\ v < O THEN "mult" ELSE "draw"]
    /\ UNCHANGED verdict

\* NonceCheck that leaves the loop whatever Rx is.
NonceCheck_NoRetry ==
    /\ get_sig.pc = "mult"
    /\ LET Rp == scal_mult_n(G, get_sig.R)
           Rx == Rp[1] % O
       IN get_sig' = [get_sig EXCEPT !.Rx = Rx, !.pc = "calc"]
    /\ UNCHANGED verdict

\* The rest of the outer loop's body: Rp = R * G, Rx = Rp[0] % O, and
\* leave the loop when Rx != 0.
NonceCheck ==
    /\ get_sig.pc = "mult"
    /\ LET Rp == scal_mult_n(G, get_sig.R)
           Rx == Rp[1] % O
       IN get_sig' = [get_sig EXCEPT !.Rx = Rx,
                                     !.nrx0 = IF Rx # 0 THEN @ ELSE @ + 1,
                                     !.pc = IF Rx # 0 THEN "calc" ELSE "draw"]
    /\ UNCHANGED verdict

\* The signature factor and the return.
GetSigReturn ==
    /\ get_sig.pc = "calc"
    /\ LET sf0 == (get_sig.m + get_sig.Rx * get_sig.sk) % O
           R_inv == invert_n(get_sig.R, O)
           sf == (sf0 * R_inv) % O
       IN get_sig' = [get_sig EXCEPT !.ret = <<sf, get_sig.Rx>>,
                                     !.pc = "returned"]
    /\ UNCHANGED verdict

\* The caller verifies what get_sig returned against sk * G.
VerifyReturned ==
    /\ get_sig.pc = "returned"
    /\ verdict' = ver_sig(get_sig.mesg, scal_mult_n(G, get_sig.sk), get_sig.ret)
    /\ get_sig' = [get_sig EXCEPT !.pc = "verified"]

\* ------------------------------------------------------------ ver_sig calls
SigVals == ((0 - SigSlack)..SigSlack) \cup ((O - SigSlack)..(O + SigSlack))
PkInputs == (0..MaxPkX) \X (0..p)

VerInit ==
    ver_call = [mesg |-> 0, pk |-> Identity, sig |-> <<0, 0>>, ret |-> "none"]

VerSigCall(mesg, pk, sig) ==
    /\ ver_call.ret = "none"
    /\ ver_call' = [mesg |-> mesg, pk |-> pk, sig |-> sig,
                 ret |-> ver_sig(mesg, pk, sig)]

\* ------------------------------------------------------------ specifications
Init == FieldInit /\ CurveInit /\ GroupInit /\ SignInit /\ VerInit

\* get_sig followed by ver_sig.
Next ==
    \/ \E mesg \in Messages, sk \in PrivateKeys :
          GetSigCall(mesg, sk) /\ UNCHANGED <<fieldVars, curveVars, groupVars, ver_call>>
    \/ \E v \in get_rand256 :
          DrawNonce(v) /\ UNCHANGED <<fieldVars, curveVars, groupVars, ver_call>>
    \/ NonceCheck /\ UNCHANGED <<fieldVars, curveVars, groupVars, ver_call>>
    \/ GetSigReturn /\ UNCHANGED <<fieldVars, curveVars, groupVars, ver_call>>
    \/ VerifyReturned /\ UNCHANGED <<fieldVars, curveVars, groupVars, ver_call>>

Spec == Init /\ [][Next]_vars

\* ver_sig on caller-supplied inputs.
NextVerify ==
    /\ ver_call.ret = "none"
    /\ \E mesg \in Messages, pk \in PkInputs \cup {G}, sig \in SigVals \X SigVals :
          VerSigCall(mesg, pk, sig)
    /\ UNCHANGED <<fieldVars, curveVars, groupVars, signVars>>

SpecVerify == Init /\ [][NextVerify]_vars

\* Sequences of curve operations from the identity.
NextCurve ==
    \/ \E q \in CurvePoints \cup {Identity} :
          ElipAddCall(q) /\ UNCHANGED <<fieldVars, groupVars, signVars, ver_call>>
    \/ \E k \in Scalars :
          ScalMultCall(k) /\ UNCHANGED <<fieldVars, groupVars, signVars, ver_call>>

SpecCurve == Init /\ [][NextCurve]_vars

\* The two sides of the group law on a valid point.
NextGroup ==
    /\ gop = "none"
    /\ \E P \in CurvePoints \cup {Identity}, a \in 0..MaxK, b \in 0..MaxK :
          GroupLawCall(P, a, b)
    /\ UNCHANGED <<fieldVars, curveVars, signVars, ver_call>>

SpecGroup == Init /\ [][NextGroup]_vars

\* Field arithmetic on caller-supplied inputs.
NextField ==
    \/ /\ fop = "none"
       /\ \E x \in 0..(2 * p), n \in {p, O} : InvertCall(x, n)
       /\ UNCHANGED <<curveVars, groupVars, signVars, ver_call>>
    \/ /\ fop = "none"
       /\ \E x \in 0..(p - 1), e \in 0..MaxExp, n \in {p, O} : PowModCall(x, e, n)
       /\ UNCHANGED <<curveVars, groupVars, signVars, ver_call>>

SpecField == Init /\ [][NextField]_vars

\* ------------------------------------------------------------ properties
InRange(v) == v \in 1..(O - 1)

\* y^2 = x^3 + 7 (mod p), whatever the range of the coordinates.
CurveEquation(P) == (P[2] * P[2]) % p = (P[1] * P[1] * P[1] + 7) % p

\* x^e mod n by e successive multiplications.
RECURSIVE NaivePow(_, _, _)
NaivePow(x, e, n) == IF e = 0 THEN 1 % n ELSE (x * NaivePow(x, e - 1, n)) % n

Signed == get_sig.pc \in {"returned", "verified"}

\* C1: round trip.  Whatever the message, the private key in 1..O-1 and the
\* values drawn, ver_sig on the message, sk * G and the signature get_sig
\* returned yields True (neither False nor a failed assertion).
C1_RoundTrip == get_sig.pc = "verified" => verdict = "True"

\* C2: every signature (s, r) get_sig returns has 1 <= s <= O-1 and
\* 1 <= r <= O-1.
C2_SignatureInRange == Signed => InRange(get_sig.ret[1]) /\ InRange(get_sig.ret[2])

\* C3: ver_sig fails its assertion whenever s or r lies outside 1..O-1,
\* each component independently.
C3_RangeCheckHalts ==
    (ver_call.ret # "none"
        /\ (~InRange(ver_call.sig[1]) \/ ~InRange(ver_call.sig[2])))
    => ver_call.ret = AssertionError

\* C4: ver_sig fails its assertion for every public key that does not
\* satisfy the curve equation, whatever the message and the in-range
\* signature.
C4_OffCurveHalts ==
    (ver_call.ret # "none"
        /\ InRange(ver_call.sig[1]) /\ InRange(ver_call.sig[2])
        /\ ~CurveEquation(ver_call.pk))
    => ver_call.ret = AssertionError

\* C5: group law.  For every valid point P and k1, k2 >= 0,
\* scal_mult_n(P, k1 + k2) = elip_add(scal_mult_n(P, k1), scal_mult_n(P, k2)).
C5_GroupLaw == (gop = "called" /\ ValidPoint(gP)) => lhs = rhs

\* C6: for every non-identity point P of the curve, scal_mult_n(P, O) is
\* the identity and equals scal_mult_n(G, O), so ver_sig with an in-range
\* signature never fails its subgroup check on P: it returns True or False.
C6_OrderTimesPoint ==
    (cop = "scal_mult_n" /\ opK = O /\ OnCurve(opP))
    => /\ cp = Identity
       /\ cp = scal_mult_n(G, O)
       /\ \A mesg \in Messages : ver_sig(mesg, opP, <<1, 1>>) \in {"True", "False"}

C6_Witness ==
    /\ cop = "scal_mult_n" /\ opK = O /\ OnCurve(opP) /\ opP # G
    /\ cp = Identity

\* C7 as stated: invert_n halts on an input congruent to 0 modulo the
\* modulus and returns nothing.
C7_ZeroInputHalts == (fop = "invert_n" /\ fx % fn = 0) => fhalt

\* C7 as amended: invert_n does not halt on an input congruent to 0 modulo
\* an odd prime modulus; it returns 0 (which is no inverse).
C7_ZeroInputReturnsZero ==
    (fop = "invert_n" /\ fx % fn = 0) => (~fhalt /\ fres = 0)

C7_Witness == fop = "invert_n" /\ fx = fn /\ fres = 0 /\ ~fhalt

\* C8: closure.  After any sequence of elip_add and scal_mult_n calls on
\* valid points and scalars >= 0, the point produced is the identity or a
\* point with coordinates in 0..p-1 that satisfies the curve equation.
C8_Closure == ValidPoint(cp)

\* 3 * P for a point P of the curve: a doubling and a chord addition.
C8_Witness ==
    cop = "scal_mult_n" /\ opK = 3 /\ OnCurve(opP) /\ OnCurve(cp) /\ cp # opP

\* C9: invert_n(x, n) for a prime n and x in 1..n-1 returns the inverse:
\* (x * invert_n(x, n)) % n = 1; and pow_mod_n(x, e, n) is x^e mod n for
\* every exponent e >= 0, 1 for e = 0.
C9_InverseCorrect ==
    /\ (fop = "invert_n" /\ fx \in 1..(fn - 1))
       => (~fhalt /\ fres \in 1..(fn - 1) /\ (fx * fres) % fn = 1)
    /\ fop = "pow_mod_n" => (~fhalt /\ fres = NaivePow(fx, fe, fn))

C9_Witness == fop = "invert_n" /\ fn = p /\ fx = p - 2 /\ (fx * fres) % p = 1

\* What get_sig returns is built from the last drawn k alone.
C10_Returned ==
    Signed =>
        LET k == get_sig.R
            s == get_sig.ret[1]
            r == get_sig.ret[2]
        IN /\ k \in 1..(O - 1)
           /\ r = scal_mult_n(G, k)[1] % O
           /\ r # 0
           /\ s \in 0..(O - 1)
           /\ (s * k) % O = (sha256(get_sig.mesg) + r * get_sig.sk) % O

\* Every step of get_sig's loops discards a bad draw and returns nothing.
C10_Step ==
    /\ (get_sig.pc = "draw" /\ get_sig'.pc # "draw")
       => (get_sig'.pc = "mult" /\ get_sig'.R \in 1..(O - 1))
    /\ (get_sig.pc = "draw" /\ get_sig'.R \notin 1..(O - 1))
       => (get_sig'.pc = "draw" /\ get_sig'.ret = get_sig.ret)
    /\ (get_sig.pc = "mult" /\ scal_mult_n(G, get_sig.R)[1] % O = 0)
       => (get_sig'.pc = "draw" /\ get_sig'.ret = get_sig.ret)
    /\ get_sig'.pc = "mult"
       => (get_sig.pc = "draw" /\ get_sig'.ndraws = get_sig.ndraws + 1)
    /\ get_sig'.pc = "calc" => (get_sig.pc = "mult" /\ get_sig'.R = get_sig.R)
    /\ get_sig'.pc = "returned" => (get_sig.pc = "calc" /\ get_sig'.R = get_sig.R)

\* C10: nonce retry.  A drawn value outside 1..O-1, or one whose point has
\* x % O = 0, is discarded: control goes back to the draw and nothing is
\* returned on that step.  Only a draw step brings a nonce to the check and
\* only the step after a passed check returns; what is returned is built
\* from the last drawn k alone: k in 1..O-1, r = (k * G).x % O # 0 and
\* s * k = m + r * sk (mod O).
C10_NonceRetry == []C10_Returned /\ [][C10_Step]_vars

\* A signature returned after one draw was out of range and another had
\* x % O = 0.
C10_Witness ==
    get_sig.pc = "returned" /\ get_sig.ndraws = 3 /\ get_sig.nrx0 = 1

====
